---------------------------- MODULE Spec2Model ----------------------------
(***************************************************************************)
(* fallbackValue (src/src/index.ts): a path tokenizer and a traversal loop *)
(* that reads a nested value by own-property lookups and returns a default *)
(* on any miss.                                                            *)
(*                                                                         *)
(* A JavaScript value is a record [kind, prim, props]:                     *)
(*   kind  - what typeof / null checks see ("undefined", "null", "number", *)
(*           "string", "boolean", "object", "array", "function");          *)
(*   prim  - the text of a primitive ("" for the others);                  *)
(*   props - the own properties, a function from property names (strings)  *)
(*           to values.  An array owns its index keys "0".."n-1" and       *)
(*           "length"; a function owns "length", "name" and "prototype".   *)
(* A path is [given, chars]: given = FALSE stands for a null or absent     *)
(* path argument, chars is the string as a sequence of one-character       *)
(* strings.                                                                *)
(***************************************************************************)
EXTENDS Integers, Sequences, FiniteSets, TLC

VARIABLES
    val,         \* argument val of fallbackValue
    path,        \* argument path of fallbackValue
    arg,         \* the defaultVal argument as the caller passed it
    defaultVal,  \* parameter defaultVal after the default initializer ran
    segments,    \* tokenize's segments, then fallbackValue's segments
    tcurrent,    \* tokenize's accumulator `current`
    i,           \* tokenize's scan position (0-based)
    current,     \* fallbackValue's `current`
    idx,         \* number of segments the for-of loop has consumed
    result,      \* the returned value, meaningful when pc = "done"
    pc           \* "call", "tokenize", "loop", "done", "threw"

vars == <<val, path, arg, defaultVal, segments, tcurrent, i, current, idx, result, pc>>

---------------------------------------------------------------------------
(* Values *)

NoProps == << >>

Prim(kind, text) == [kind |-> kind, prim |-> text, props |-> NoProps]

Undefined == Prim("undefined", "")
Null      == Prim("null", "")
Num(text) == Prim("number", text)
Str(text) == Prim("string", text)
Bool(text) == Prim("boolean", text)

Obj(props) == [kind |-> "object", prim |-> "", props |-> props]

\* decimal text of a small array index / length
IdxStr(n) == <<"0", "1", "2", "3", "4", "5", "6", "7", "8", "9">>[n + 1]

\* an array literal: own index keys and own "length"
Arr(elems) ==
    [kind |-> "array", prim |-> "",
     props |-> [key \in {IdxStr(n - 1) : n \in 1..Len(elems)} \cup {"length"} |->
                  IF key = "length" THEN Num(IdxStr(Len(elems)))
                  ELSE elems[CHOOSE n \in 1..Len(elems) : IdxStr(n - 1) = key]]]

\* a function object: own "length", "name", "prototype" plus expando properties
Fun(name, extra) ==
    [kind |-> "function", prim |-> "",
     props |-> extra @@ ("length" :> Num("0")) @@ ("name" :> Str(name))
                     @@ ("prototype" :> Obj(NoProps))]

\* the argument-omitted marker (not a value a program can store)
Omitted == Prim("omitted", "")

\* const SENTINEL = Symbol("not-found")
SENTINEL == Prim("symbol", "not-found")

\* a key left out of the set
UNSAFE_KEYS_NoConstructor == {"__proto__", "prototype"}

\* const UNSAFE_KEYS = new Set(["__proto__", "prototype", "constructor"])
UNSAFE_KEYS == {"__proto__", "prototype", "constructor"}

---------------------------------------------------------------------------
(* tokenize(path), src/src/index.ts lines 81-118 *)

\* path[n]: reading past the end gives undefined, which equals no character
NoChar == ""
At(p, n) == IF n >= 0 /\ n < Len(p) THEN p[n + 1] ELSE NoChar

\* segments.push(current) without the emptiness test
Push_Always(segs, cur) == Append(segs, cur)

\* if (current) segments.push(current)
Push(segs, cur) == IF cur # "" THEN Append(segs, cur) ELSE segs

\* tokenize's locals at function entry
TokStart == [i |-> 0, current |-> "", segments |-> << >>]

\* the escape test left out
IsEscape_Never(p, n) == FALSE

\* branch conditions of the scan loop, in the order the code tests them
IsEscape(p, n)  == At(p, n) = "\\" /\ At(p, n + 1) = "."
IsDot(p, n)     == ~IsEscape(p, n) /\ At(p, n) = "."
IsBracket(p, n) == ~IsEscape(p, n) /\ At(p, n) # "." /\ At(p, n) = "["
IsPlain(p, n)   == ~IsEscape(p, n) /\ At(p, n) # "." /\ At(p, n) # "["

\* current += "."; i += 2
EscapeStep(p, st) ==
    [i |-> st.i + 2, current |-> st.current \o ".", segments |-> st.segments]

\* if (current) segments.push(current); current = ""; i++
DotStep(p, st) ==
    [i |-> st.i + 1, current |-> "", segments |-> Push(st.segments, st.current)]

\* while (i < path.length && path[i] !== "]") current += path[i++]
RECURSIVE ReadBracket(_, _, _)
ReadBracket(p, n, cur) ==
    IF n < Len(p) /\ At(p, n) # "]"
    THEN ReadBracket(p, n + 1, cur \o At(p, n))
    ELSE [i |-> n, current |-> cur]

\* the "[" branch without the flush of the pending key
BracketStep_NoFlush(p, st) ==
    LET inner == ReadBracket(p, st.i + 1, "")
        after == inner.i + 1
    IN  [i        |-> IF At(p, after) = "." THEN after + 1 ELSE after,
         current  |-> "",
         segments |-> Push(st.segments, inner.current)]

\* the "[" branch: flush the key, read up to "]", push, skip "]" and one "."
BracketStep(p, st) ==
    LET flushed == Push(st.segments, st.current)
        inner   == ReadBracket(p, st.i + 1, "")
        after   == inner.i + 1
    IN  [i        |-> IF At(p, after) = "." THEN after + 1 ELSE after,
         current  |-> "",
         segments |-> Push(flushed, inner.current)]

\* current += ch; i++
PlainStep(p, st) ==
    [i |-> st.i + 1, current |-> st.current \o At(p, st.i), segments |-> st.segments]

\* one iteration of the while loop
TokIter(p, st) ==
    IF IsEscape(p, st.i) THEN EscapeStep(p, st)
    ELSE IF IsDot(p, st.i) THEN DotStep(p, st)
    ELSE IF IsBracket(p, st.i) THEN BracketStep(p, st)
    ELSE PlainStep(p, st)

\* if (current) segments.push(current); return segments
TokFinish(st) == Push(st.segments, st.current)

RECURSIVE TokLoop(_, _)
TokLoop(p, st) ==
    IF st.i < Len(p) THEN TokLoop(p, TokIter(p, st)) ELSE TokFinish(st)

tokenize(p) == TokLoop(p, TokStart)

---------------------------------------------------------------------------
(* The JavaScript operations fallbackValue applies to a value *)

\* typeof v
TypeOf(v) ==
    CASE v.kind \in {"null", "object", "array"} -> "object"
      [] OTHER -> v.kind

\* v == null
IsNullish(v) == v.kind \in {"undefined", "null"}

\* typeof null is "object": the typeof test alone lets null through
NonTraversable_TypeofOnly(v) == TypeOf(v) # "object" /\ TypeOf(v) # "function"

\* the null test alone lets strings, numbers and booleans through
NonTraversable_NullOnly(v) == v.kind \in {"undefined", "null"}

\* current == null || (typeof current !== "object" && typeof current !== "function")
NonTraversable(v) ==
    IsNullish(v) \/ (TypeOf(v) # "object" /\ TypeOf(v) # "function")

\* UNSAFE_KEYS.has(segment)
IsUnsafe(segment) == segment \in UNSAFE_KEYS

\* the own property names of ToObject(v); a string primitive boxes to an
\* object that owns its character indexes and "length"
OwnKeys(v) ==
    CASE v.kind \in {"object", "array", "function"} -> DOMAIN v.props
      [] v.kind = "string" -> {IdxStr(n - 1) : n \in 1..Len(v.prim)} \cup {"length"}
      [] OTHER -> {}

\* key in v: own or inherited
HasOwnProperty_In(v, key) ==
    key \in (CASE v.kind \in {"object", "array", "function"} -> DOMAIN v.props
               [] OTHER -> {}) \cup {"constructor", "toString", "__proto__"}

\* Object.prototype.hasOwnProperty.call(v, key), for v not null or undefined
HasOwnProperty(v, key) == key \in OwnKeys(v)

\* members every object inherits from Object.prototype
InheritedKeys == {"constructor", "toString", "__proto__"}

\* v[key]: the own property, else the inherited member, else undefined.
\* The strings of the model have at most one character, so s[0] is s.
Get(v, key) ==
    IF key \in OwnKeys(v)
    THEN IF v.kind = "string"
         THEN (IF key = "length" THEN Num(IdxStr(Len(v.prim))) ELSE v)
         ELSE v.props[key]
    ELSE IF key \in InheritedKeys
    THEN (IF key = "__proto__" THEN Obj(NoProps) ELSE Fun(key, NoProps))
    ELSE Undefined

\* current[segment] || SENTINEL: a falsy stored value counts as missing
Lookup_Truthy(v, segment) ==
    IF segment \in DOMAIN v.props
          /\ v.props[segment].kind \notin {"undefined", "null"}
          /\ v.props[segment].prim \notin {"0", "false"}
          /\ v.props[segment] # [kind |-> "string", prim |-> "", props |-> << >>]
    THEN v.props[segment]
    ELSE [kind |-> "symbol", prim |-> "not-found", props |-> << >>]

\* hasOwnProperty.call(current, segment) ? current[segment] : SENTINEL
Lookup(v, segment) ==
    IF HasOwnProperty(v, segment) THEN Get(v, segment) ELSE SENTINEL

\* no default initializer: an omitted argument stays undefined
BindDefault_None(a) ==
    IF a.kind = "omitted" THEN [kind |-> "undefined", prim |-> "", props |-> << >>] ELSE a

\* defaultVal: any = null  (the initializer runs for a missing or undefined argument)
BindDefault(a) == IF a \in {Omitted, Undefined} THEN Null ELSE a

\* current == null ? defaultVal : current
FinalValue_Nullish(cur, dflt) == IF cur.kind \in {"undefined", "null"} THEN dflt ELSE cur

\* return current
FinalValue_Unchecked(cur, dflt) == cur

\* return current === undefined ? defaultVal : current
FinalValue(cur, dflt) == IF cur = Undefined THEN dflt ELSE cur

\* return val || defaultVal
Coalesce_Falsy(v, dflt) ==
    IF v.kind \in {"undefined", "null"} \/ v.prim \in {"0", "false"}
          \/ (v.kind = "string" /\ v.prim = "")
    THEN dflt ELSE v

\* return val == null ? defaultVal : val
Coalesce(v, dflt) == IF IsNullish(v) THEN dflt ELSE v

---------------------------------------------------------------------------
(* Actions *)

Return(v) == result' = v /\ pc' = "done"

\* fallbackValue(val, null | undefined, defaultVal): line 185
NoPath ==
    /\ pc = "call"
    /\ ~path.given
    /\ defaultVal' = BindDefault(arg)
    /\ Return(Coalesce(val, BindDefault(arg)))
    /\ UNCHANGED <<val, path, arg, segments, tcurrent, i, current, idx>>

\* path != null: enter tokenize(path)
Call ==
    /\ pc = "call"
    /\ path.given
    /\ defaultVal' = BindDefault(arg)
    /\ segments' = TokStart.segments
    /\ tcurrent' = TokStart.current
    /\ i' = TokStart.i
    /\ pc' = "tokenize"
    /\ UNCHANGED <<val, path, arg, current, idx, result>>

TokState == [i |-> i, current |-> tcurrent, segments |-> segments]

TokApply(st) ==
    /\ i' = st.i
    /\ tcurrent' = st.current
    /\ segments' = st.segments
    /\ UNCHANGED <<val, path, arg, defaultVal, current, idx, result, pc>>

Scanning == pc = "tokenize" /\ i < Len(path.chars)

TokEscape  == Scanning /\ IsEscape(path.chars, i)  /\ TokApply(EscapeStep(path.chars, TokState))
TokDot     == Scanning /\ IsDot(path.chars, i)     /\ TokApply(DotStep(path.chars, TokState))
TokBracket == Scanning /\ IsBracket(path.chars, i) /\ TokApply(BracketStep(path.chars, TokState))
TokPlain   == Scanning /\ IsPlain(path.chars, i)   /\ TokApply(PlainStep(path.chars, TokState))

\* the scan is over: tokenize returns, fallbackValue sets current = val
TokReturn ==
    /\ pc = "tokenize"
    /\ ~(i < Len(path.chars))
    /\ segments' = TokFinish(TokState)
    /\ tcurrent' = ""
    /\ current' = val
    /\ idx' = 0
    /\ pc' = "loop"
    /\ UNCHANGED <<val, path, arg, defaultVal, i, result>>

\* lines 159-161 in one step: segments = tokenize(path); current = val
CallTokenize ==
    /\ pc = "call"
    /\ path.given
    /\ defaultVal' = BindDefault(arg)
    /\ segments' = tokenize(path.chars)
    /\ current' = val
    /\ idx' = 0
    /\ pc' = "loop"
    /\ UNCHANGED <<val, path, arg, tcurrent, i, result>>

InLoop == pc = "loop" /\ idx < Len(segments)
segment == segments[idx + 1]

\* if (UNSAFE_KEYS.has(segment)) return defaultVal
LoopUnsafe ==
    /\ InLoop
    /\ IsUnsafe(segment)
    /\ Return(defaultVal)
    /\ UNCHANGED <<val, path, arg, defaultVal, segments, tcurrent, i, current, idx>>

\* if (current == null || ...) return defaultVal
LoopNonTraversable ==
    /\ InLoop
    /\ ~IsUnsafe(segment)
    /\ NonTraversable(current)
    /\ Return(defaultVal)
    /\ UNCHANGED <<val, path, arg, defaultVal, segments, tcurrent, i, current, idx>>

\* lines 174-178: the own-property lookup.  hasOwnProperty.call throws a
\* TypeError on null and undefined.
LoopLookup ==
    /\ InLoop
    /\ ~IsUnsafe(segment)
    /\ ~NonTraversable(current)
    /\ IF IsNullish(current)
       THEN /\ pc' = "threw"
            /\ UNCHANGED <<current, idx, result>>
       ELSE /\ current' = Lookup(current, segment)
            /\ IF current' = SENTINEL
               THEN Return(defaultVal) /\ UNCHANGED idx
               ELSE idx' = idx + 1 /\ UNCHANGED <<result, pc>>
    /\ UNCHANGED <<val, path, arg, defaultVal, segments, tcurrent, i>>

\* line 182, after the last segment
LoopReturn ==
    /\ pc = "loop"
    /\ ~(idx < Len(segments))
    /\ Return(FinalValue(current, defaultVal))
    /\ UNCHANGED <<val, path, arg, defaultVal, segments, tcurrent, i, current, idx>>

---------------------------------------------------------------------------
(* Inputs *)

\* longest path drawn character by character
MaxLen == 3
\* most segments of a path written segment by segment
MaxSegs == 3
\* longest key of the escaped-dot round trip
MaxKeyLen == 3

PathChars == {"a", "0", ".", "[", "]", "\\"}
KeyChars  == {"a", ".", "[", "]", "\\"}

SeqsUpTo(S, n) == UNION {[1..m -> S] : m \in 0..n}

RECURSIVE Text(_)
Text(chars) == IF chars = << >> THEN "" ELSE Head(chars) \o Text(Tail(chars))

RECURSIVE Flatten(_)
Flatten(pieces) == IF pieces = << >> THEN << >> ELSE Head(pieces) \o Flatten(Tail(pieces))

Given(chars) == [given |-> TRUE, chars |-> chars]
Absent       == [given |-> FALSE, chars |-> << >>]

ProtoChars       == <<"_", "_", "p", "r", "o", "t", "o", "_", "_">>
PrototypeChars   == <<"p", "r", "o", "t", "o", "t", "y", "p", "e">>
ConstructorChars == <<"c", "o", "n", "s", "t", "r", "u", "c", "t", "o", "r">>
ToStringChars    == <<"t", "o", "S", "t", "r", "i", "n", "g">>

\* a path written the documented way: keys joined by ".", indexes in "[...]"
Key(chars)   == [bracket |-> FALSE, chars |-> chars]
Index(chars) == [bracket |-> TRUE, chars |-> chars]

Steps ==
    {Key(<<"a">>), Key(<<"b">>), Index(<<"0">>), Index(<<"1">>),
     Key(ProtoChars), Index(ConstructorChars), Key(PrototypeChars), Key(ToStringChars)}

Written(steps) ==
    Flatten([n \in 1..Len(steps) |->
        IF steps[n].bracket THEN <<"[">> \o steps[n].chars \o <<"]">>
        ELSE IF n = 1 THEN steps[n].chars
        ELSE <<".">> \o steps[n].chars])

StepPaths == {Given(Written(steps)) : steps \in SeqsUpTo(Steps, MaxSegs) \ {<< >>}}

CharPaths == {Given(chars) : chars \in SeqsUpTo(PathChars, MaxLen)}

\* the paths of the prototype-pollution tests
UnsafePaths ==
    {Given(ProtoChars \o <<".", "a">>), Given(ConstructorChars), Given(PrototypeChars),
     Given(<<"a", ".">> \o ProtoChars)}

\* keys that contain a dot, and the path that escapes every dot of a key
DotKeys == {k \in SeqsUpTo(KeyChars, MaxKeyLen) : \E n \in 1..Len(k) : k[n] = "."}
Escaped(k) == Flatten([n \in 1..Len(k) |-> IF k[n] = "." THEN <<"\\", ".">> ELSE <<k[n]>>])

Scalars == {Undefined, Null, Num("0"), Bool("false"), Str(""), Str("s")}
Stored  == {Undefined, Null, Num("42"), Obj("a" :> Num("1"))}

\* data of the shapes the tests use
Leaves  == Obj(("a" :> Num("42")) @@ ("b" :> Str("s")))
Gaps    == Obj(("a" :> Null) @@ ("b" :> Undefined))
Nested  == Obj(("a" :> Arr(<<Arr(<<Num("1"), Num("2")>>), Arr(<<Num("3")>>)>>))
               @@ ("b" :> Obj("a" :> Obj(("b" :> Bool("false")) @@ ("a" :> Null)))))
List    == Arr(<<Obj("a" :> Num("0")), Undefined>>)
Owned   == Obj(("__proto__" :> Obj("a" :> Num("1"))) @@ ("constructor" :> Obj("a" :> Num("1")))
               @@ ("prototype" :> Num("7")) @@ ("a" :> Obj("constructor" :> Obj("a" :> Num("1"))))
               @@ ("toString" :> Str("s")))
Callee  == Fun("f", "a" :> Num("1"))
Short   == Obj(("a" :> Obj(("a" :> Num("1")) @@ ("0" :> Null))) @@ ("0" :> Undefined)
               @@ ("a0" :> Str("s")) @@ ("a." :> Num("2")))

Structures == {Leaves, Gaps, Nested, List, Owned, Callee}
Fallbacks  == {Omitted, Undefined, Str("D"), Obj("d" :> Num("1"))}

Fresh ==
    /\ defaultVal = Undefined
    /\ segments = << >>
    /\ tcurrent = ""
    /\ i = 0
    /\ current = Undefined
    /\ idx = 0
    /\ result = Undefined
    /\ pc = "call"

InitNoPath ==
    /\ val \in Scalars \cup Structures
    /\ path = Absent
    /\ arg \in Fallbacks
    /\ Fresh

InitChars ==
    /\ val \in Scalars \cup {Short, List}
    /\ path \in CharPaths \cup UnsafePaths
    /\ arg \in Fallbacks
    /\ Fresh

InitEscaped ==
    /\ \E k \in DotKeys, v \in Stored :
          /\ val = Obj(Text(k) :> v)
          /\ path = Given(Escaped(k))
    /\ arg \in Fallbacks
    /\ Fresh

InitSteps ==
    /\ val \in {Undefined, Null, Num("0"), Str("s")} \cup Structures
    /\ path \in StepPaths
    /\ arg \in Fallbacks
    /\ Fresh

---------------------------------------------------------------------------
(* Specifications *)

\* the call with tokenize run one loop iteration at a time
Init == InitNoPath \/ InitChars \/ InitEscaped

Next ==
    \/ NoPath
    \/ Call
    \/ TokEscape
    \/ TokDot
    \/ TokBracket
    \/ TokPlain
    \/ TokReturn
    \/ LoopUnsafe
    \/ LoopNonTraversable
    \/ LoopLookup
    \/ LoopReturn

Spec == Init /\ [][Next]_vars

\* the call with tokenize(path) as one step, on paths written segment by segment
InitSeg == InitNoPath \/ InitSteps

NextSeg ==
    \/ NoPath
    \/ CallTokenize
    \/ LoopUnsafe
    \/ LoopNonTraversable
    \/ LoopLookup
    \/ LoopReturn

SpecSeg == InitSeg /\ [][NextSeg]_vars

\* the stepwise call, with the documented bracket paths added to the inputs
BracketPaths ==
    {Given(<<"a", "[", "0", "]", ".", "b">>),
     Given(<<"a", "[", "0", "]", "b">>),
     Given(<<"a", ".", "0", ".", "b">>),
     Given(<<"[", "0", "]", "[", "1", "]">>),
     Given(<<"a", "[", "0", "]", "[", "1", "]">>),
     Given(<<"b", "[", "a", ".", "0", "]", ".", ".", "a">>),
     Given(<<"a", "\\", ".", "[", "\\", ".", "]", "[", "]", "[", "b">>)}

InitBrackets ==
    /\ val \in {Null, Nested, List}
    /\ path \in BracketPaths
    /\ arg \in Fallbacks
    /\ Fresh

InitTok == Init \/ InitBrackets

SpecTok == InitTok /\ [][Next]_vars

---------------------------------------------------------------------------
(* Reference lookups the properties are stated against: a walk over own    *)
(* properties read straight from the data, written without the operators   *)
(* of the traversal loop.                                                  *)

Reserved == {"__proto__", "prototype", "constructor"}
Indexable(v) == v.kind \in {"object", "array", "function"}
Done == pc = "done"

\* every segment is a safe key owned by the object reached so far
RECURSIVE Resolves(_, _)
Resolves(v, segs) ==
    \/ segs = << >>
    \/ /\ Head(segs) \notin Reserved
       /\ Indexable(v)
       /\ Head(segs) \in DOMAIN v.props
       /\ Resolves(v.props[Head(segs)], Tail(segs))

\* the same walk without the safety test
RECURSIVE OwnResolves(_, _)
OwnResolves(v, segs) ==
    \/ segs = << >>
    \/ /\ Indexable(v)
       /\ Head(segs) \in DOMAIN v.props
       /\ OwnResolves(v.props[Head(segs)], Tail(segs))

\* the value a resolving walk ends at
RECURSIVE OwnWalk(_, _)
OwnWalk(v, segs) ==
    IF segs = << >> THEN v ELSE OwnWalk(v.props[Head(segs)], Tail(segs))

\* the value the caller asked to get back on failure (null when none given)
Requested == IF arg = Omitted THEN Null ELSE arg

---------------------------------------------------------------------------
(* C1: a path whose segment sequence holds "__proto__", "prototype" or     *)
(* "constructor" at any position returns the fallback, whatever the root   *)
(* owns and whatever the later segments would reach.                       *)
C1_UnsafeKeyBlocked ==
    (Done /\ path.given /\ \E n \in 1..Len(segments) : segments[n] \in Reserved)
        => result = defaultVal

\* an unsafe key in the middle of a path every step of which the data owns
C1_Witness ==
    /\ Done
    /\ Len(segments) = 3
    /\ segments[2] \in Reserved
    /\ OwnResolves(val, segments)
    /\ OwnWalk(val, segments) = Num("1")
    /\ arg = Str("D")
    /\ result = Str("D")

(* C2: for every root, path and fallback the call ends in a normal return: *)
(* no step throws, every state short of the return has a next step, and    *)
(* every step of tokenize and of the traversal strictly lowers a natural-  *)
(* number measure of the work left, so the call cannot run forever.        *)
WorkLeft ==
    CASE pc = "call"     -> 2 * Len(path.chars) + 5
      [] pc = "tokenize" -> (Len(path.chars) + 1 - i) + Len(path.chars) + 3
      [] pc = "loop"     -> (Len(segments) - idx) + 1
      [] OTHER           -> 0

C2_Progress == WorkLeft \in Nat /\ (Done \/ ENABLED Next)

C3_ResolvesToNestedValue ==
    /\ (Done /\ path.given /\ Resolves(val, segments)
             /\ OwnWalk(val, segments) # Undefined)
           => result = OwnWalk(val, segments)
    /\ (Done /\ val = Nested /\ path = Given(<<"a", "[", "1", "]", "[", "0", "]">>))
           => result = Num("3")

\* consecutive brackets after a key
C3_Witness ==
    /\ Done
    /\ val = Nested
    /\ path = Given(<<"a", "[", "1", "]", "[", "0", "]">>)
    /\ segments = <<"a", "1", "0">>
    /\ arg = Str("D")
    /\ result = Num("3")

(* C4: a path that resolves to a stored null returns null, never the       *)
(* fallback; one that resolves to a stored undefined returns the fallback, *)
(* which is null when no fallback was given.                               *)
C4_NullKeptUndefinedReplaced ==
    (Done /\ path.given /\ Len(segments) > 0 /\ Resolves(val, segments)) =>
        /\ OwnWalk(val, segments) = Null => result = Null
        /\ OwnWalk(val, segments) = Undefined =>
              /\ result = defaultVal
              /\ arg = Omitted => result = Null

\* {a: null, b: undefined}, "a", fallback "D"
C4_Witness ==
    /\ Done
    /\ val = Gaps
    /\ segments = <<"a">>
    /\ arg = Str("D")
    /\ result = Null

(* C5: with no path the call returns the value itself unless it is null or *)
(* undefined (0, false and "" are returned), and the fallback otherwise.   *)
C5_NoPathCoalesces ==
    (Done /\ ~path.given) =>
        result = (IF val.kind \in {"null", "undefined"} THEN defaultVal ELSE val)

\* fallbackValue(0, null, "D") = 0
C5_Witness ==
    /\ Done
    /\ ~path.given
    /\ val = Num("0")
    /\ arg = Str("D")
    /\ result = Num("0")

(* C6 as claimed: a path that tokenizes to zero segments returns the root  *)
(* unless the root is null or undefined, and the fallback if it is.        *)
SeparatorsOnly == \A n \in 1..Len(path.chars) : path.chars[n] = "."

C6_Original ==
    (Done /\ path.given /\ (segments = << >> \/ SeparatorsOnly)) =>
        result = (IF val.kind \in {"null", "undefined"} THEN defaultVal ELSE val)

(* C6 amended: a path that tokenizes to zero segments (the empty string, a *)
(* path made only of dots) returns the root unless the root is undefined:  *)
(* a null root is returned as null, an undefined root gives the fallback.  *)
C6_ZeroSegments ==
    (Done /\ path.given /\ (segments = << >> \/ SeparatorsOnly)) =>
        result = (IF val.kind = "undefined" THEN defaultVal ELSE val)

\* fallbackValue(null, ".", "D") = null
C6_Witness ==
    /\ Done
    /\ path = Given(<<".">>)
    /\ segments = << >>
    /\ val = Null
    /\ arg = Str("D")
    /\ result = Null

(* C7 as claimed: for any key k with a dot and any stored v, the path that *)
(* puts a backslash before every dot of k resolves against {k: v} to v,    *)
(* with k as the single segment.                                           *)
SingleKey == Done /\ val.kind = "object" /\ Cardinality(DOMAIN val.props) = 1

RoundTrip(k) ==
    /\ SingleKey
    /\ Len(path.chars) > Len(k)
    /\ DOMAIN val.props = {Text(k)}
    /\ path = Given(Escaped(k))

C7_Original ==
    SingleKey =>
        \A k \in DotKeys :
            RoundTrip(k) => (segments = <<Text(k)>> /\ result = val.props[Text(k)])

(* C7 amended: for any key k with a dot and no "[" and any stored v other  *)
(* than undefined, the escaped path resolves against {k: v} to v, with k   *)
(* as the single segment.                                                  *)
C7_EscapedDotRoundTrip ==
    SingleKey =>
        \A k \in DotKeys :
            (RoundTrip(k) /\ (\A n \in 1..Len(k) : k[n] # "[")) =>
                /\ segments = <<Text(k)>>
                /\ val.props[Text(k)] # Undefined => result = val.props[Text(k)]

\* {"a.a": 42} read through "a\.a"
C7_Witness ==
    /\ Done
    /\ val = Obj("a.a" :> Num("42"))
    /\ path = Given(<<"a", "\\", ".", "a">>)
    /\ segments = <<"a.a">>
    /\ arg = Str("D")
    /\ result = Num("42")

(* C8 as claimed: on every resolution failure the call returns the         *)
(* fallback the caller passed, undefined included, and null when the       *)
(* argument was omitted.                                                   *)
Failed ==
    IF path.given
    THEN ~(Resolves(val, segments) /\ OwnWalk(val, segments) # Undefined)
    ELSE val.kind \in {"null", "undefined"}

C8_Original == (Done /\ Failed) => result = Requested

(* C8 amended: on every resolution failure the call returns the fallback   *)
(* the caller passed, unchanged, for every fallback other than undefined;  *)
(* when the argument is omitted or is undefined it returns null.           *)
C8_FallbackVerbatim ==
    (Done /\ Failed) =>
        result = (IF arg \in {Omitted, Undefined} THEN Null ELSE arg)

\* a missing key with an object as the fallback
C8_Witness ==
    /\ Done
    /\ val = Leaves
    /\ segments = <<"a", "b">>
    /\ arg = Obj("d" :> Num("1"))
    /\ result = Obj("d" :> Num("1"))

(* C9: a traversal step whose current object, array or function does not   *)
(* own the segment returns the fallback; an inherited member of that name  *)
(* ("toString") is not read, and an index past the end of an array is a    *)
(* missing key.                                                            *)
Missing ==
    /\ pc = "loop"
    /\ idx < Len(segments)
    /\ Indexable(current)
    /\ segments[idx + 1] \notin DOMAIN current.props

C9_MissingOwnProperty ==
    [][Missing => (pc' = "done" /\ result' = defaultVal)]_vars

\* "toString" asked of {a: 42, b: "s"}
C9_Witness ==
    /\ Done
    /\ val = Leaves
    /\ segments = <<"toString">>
    /\ idx = 0
    /\ arg = Str("D")
    /\ result = Str("D")

(* C10: a traversal step whose current value is null, undefined, a number, *)
(* a string or a boolean returns the fallback, for an intermediate value   *)
(* ("a.b" on {a: 42}) and for the root alike.                              *)
Scalar ==
    /\ pc = "loop"
    /\ idx < Len(segments)
    /\ current.kind \in {"null", "undefined", "number", "string", "boolean"}

C10_ScalarStops ==
    [][Scalar => (pc' = "done" /\ result' = defaultVal)]_vars

\* "a.b" on {a: 42, b: "s"}
C10_Witness ==
    /\ Done
    /\ val = Leaves
    /\ segments = <<"a", "b">>
    /\ idx = 1
    /\ current = Num("42")
    /\ arg = Str("D")
    /\ result = Str("D")

(* C11: no segment tokenize has pushed is the empty string, at every point *)
(* of the scan and in the sequence it returns: leading, trailing and       *)
(* consecutive dots, empty brackets and an unclosed bracket with nothing   *)
(* after it add no segment.                                                *)
C11_NoEmptySegment ==
    \A n \in 1..Len(segments) : segments[n] # ""

\* "a[]" scanned to the end: the empty bracket added nothing
C11_Witness ==
    /\ pc = "loop"
    /\ path = Given(<<"a", "[", "]">>)
    /\ segments = <<"a">>

(* C12: tokenize emits keys and bracket contents left to right: segments   *)
(* are only ever appended; a "[" step first flushes the pending key, then  *)
(* pushes the text up to the next "]" (or the end of the path) unchanged,  *)
(* dots and backslashes included, and skips the "]" and exactly one "."    *)
(* directly after it; "a[0].b" gives a,0,b, "[0][1]" gives 0,1, and        *)
(* "a[0].b", "a[0]b" and "a.0.b" give the same sequence.                   *)
IsPrefix(s, t) == Len(s) <= Len(t) /\ SubSeq(t, 1, Len(s)) = s

\* position (from 1) of the first "]" at or after `from`, else one past the end
CloseAt(p, from) ==
    IF \E j \in from..Len(p) : p[j] = "]"
    THEN CHOOSE j \in from..Len(p) : p[j] = "]" /\ \A m \in from..(j - 1) : p[m] # "]"
    ELSE Len(p) + 1

Some(text) == IF text = "" THEN << >> ELSE <<text>>

AtBracket == pc = "tokenize" /\ i < Len(path.chars) /\ path.chars[i + 1] = "["

BracketEmits ==
    LET p     == path.chars
        close == CloseAt(p, i + 2)
        text  == Text(SubSeq(p, i + 2, close - 1))
    IN  /\ segments' = segments \o Some(tcurrent) \o Some(text)
        /\ tcurrent' = ""
        /\ i' = IF close < Len(p) /\ p[close + 1] = "." THEN close + 1 ELSE close

ScannedAs(chars, segs) ==
    (pc \in {"loop", "done"} /\ path = Given(chars)) => segments = segs

C12_Examples ==
    /\ ScannedAs(<<"a", "[", "0", "]", ".", "b">>, <<"a", "0", "b">>)
    /\ ScannedAs(<<"a", "[", "0", "]", "b">>, <<"a", "0", "b">>)
    /\ ScannedAs(<<"a", ".", "0", ".", "b">>, <<"a", "0", "b">>)
    /\ ScannedAs(<<"[", "0", "]", "[", "1", "]">>, <<"0", "1">>)
    /\ ScannedAs(<<"b", "[", "a", ".", "0", "]", ".", ".", "a">>, <<"b", "a.0", "a">>)

C12_BracketOrder ==
    /\ [][(pc = "tokenize" => IsPrefix(segments, segments'))
            /\ (AtBracket => BracketEmits)]_vars
    /\ []C12_Examples

\* "a[0].b" scanned to the end
C12_Witness ==
    /\ pc = "loop"
    /\ path = Given(<<"a", "[", "0", "]", ".", "b">>)
    /\ segments = <<"a", "0", "b">>

=============================================================================
